---- MODULE Spec2Model ----
(***************************************************************************)
(* Model of root_converter.py: the frequency axis trace_f, the normalizer  *)
(* nest_strip and the batch driver root_reader.                            *)
(*                                                                         *)
(* Values.  A numpy scalar that need not be whole (a raw du_id or          *)
(* du_seconds, a frequency) is a rational [num, den] with den > 0; the     *)
(* frequencies are binary fractions, exact in float64.  An ADC sample is   *)
(* an integer of no fixed width (the source names no sample dtype); the    *)
(* float64 trace grid holds the same numbers.  A datetime64[s] is its      *)
(* count of seconds since 1970-01-01T00:00:00, which is what numpy stores. *)
(* A Python call either returns a value or raises: its outcome is the      *)
(* record [exc, value].                                                    *)
(*                                                                         *)
(* Inputs.  Every trace value of a raw batch nests at least one waveform   *)
(* (f's documented shape), and the columns of a batch are equally long.    *)
(* root_reader is called with up to two files, each read in one batch.     *)
(***************************************************************************)
EXTENDS Integers, Sequences, FiniteSets, TLC

VARIABLES trace_f, pc, fname_list, files, pos, nbatch, batch, stripped,
          trigger_arr, ret, pass

vars == <<trace_f, pc, fname_list, files, pos, nbatch, batch, stripped,
          trigger_arr, ret, pass>>

\* ---------------------------------------------------------------- bounds
\* the most events a batch holds
MaxEvents == 2

\* ------------------------------------------------------ program constants
\* calibration_dtype: ("trace", float, (4, 1024))
N_CHANNELS == 4
TRACE_LEN == 1024
\* fftfreq(1024, d=2)[:512] * 1e3
FFT_N == 1024
FFT_D == 2
FFT_KEEP == 512
FFT_SCALE == 1000
\* trace_max <= 2**13
ADC_MAX == 2^13

\* ------------------------------------------------------------- rationals
Rat(n, d) == [num |-> n, den |-> d]
RatEq(a, b) == a.num * b.den = b.num * a.den
RatLt(a, b) == a.num * b.den < b.num * a.den
RatMul(a, k) == Rat(a.num * k, a.den)

\* ndarray.astype(int): truncation toward zero
astype_int(q) ==
    IF q.num >= 0 THEN q.num \div q.den ELSE -((-q.num) \div q.den)

\* ------------------------------------------------------------ datetime64
\* numpy's parse of an ISO date to days since 1970-01-01 (proleptic
\* Gregorian calendar), then to seconds.
IsLeap(y) == (y % 4 = 0 /\ y % 100 # 0) \/ y % 400 = 0
DaysInMonth(y, m) ==
    IF m = 2 THEN (IF IsLeap(y) THEN 29 ELSE 28)
    ELSE IF m \in {4, 6, 9, 11} THEN 30 ELSE 31
RECURSIVE DaysBeforeYear(_)
DaysBeforeYear(y) ==
    IF y <= 1970 THEN 0
    ELSE DaysBeforeYear(y - 1) + (IF IsLeap(y - 1) THEN 366 ELSE 365)
RECURSIVE DaysBeforeMonth(_, _)
DaysBeforeMonth(y, m) ==
    IF m <= 1 THEN 0 ELSE DaysBeforeMonth(y, m - 1) + DaysInMonth(y, m - 1)
datetime64(y, mo, d, h, mi, s) ==
    (DaysBeforeYear(y) + DaysBeforeMonth(y, mo) + (d - 1)) * 86400
        + h * 3600 + mi * 60 + s
\* np.datetime64('1970-01-01T00:00:00')
EPOCH == datetime64(1970, 1, 1, 0, 0, 0)
\* np.timedelta64(1, 's') in the unit of datetime64[s]
timedelta64_1s == 1

\* ---------------------------------------------------------------- trace_f
\* scipy.fft.fftfreq(n, d): [0, 1, ..., (n-1)//2, -(n//2), ..., -1] / (d*n)
fftfreq(n, d) ==
    LET N == ((n - 1) \div 2) + 1
    IN  [i \in 1..n |->
            IF i <= N THEN Rat(i - 1, n * d)
                      ELSE Rat((i - N - 1) - (n \div 2), n * d)]
\* mutant: the slice keeps one bin too many, [:513]
trace_f_value_513 ==
    [k \in 1..(FFT_KEEP + 1) |-> RatMul(fftfreq(FFT_N, FFT_D)[k], FFT_SCALE)]
trace_f_value ==
    [k \in 1..FFT_KEEP |-> RatMul(fftfreq(FFT_N, FFT_D)[k], FFT_SCALE)]

\* ------------------------------------------------------- Python outcomes
Return(v) == [exc |-> "none", value |-> v]
Raise(e) == [exc |-> e, value |-> <<>>]

\* ----------------------------------------------------------------- numpy
Abs(x) == IF x < 0 THEN -x ELSE x
np_abs(w) == [i \in 1..Len(w) |-> Abs(w[i])]
SetMax(S) == CHOOSE x \in S : \A y \in S : y <= x
\* mutant: np.max(x) without initial raises on an empty array
np_max_no_initial(w, initial) ==
    IF Len(w) = 0
      THEN Raise("ValueError")
      ELSE Return(SetMax({w[i] : i \in 1..Len(w)}))
\* np.max(x, initial=v): the maximum of the elements and v
np_max(w, initial) ==
    Return(SetMax({w[i] : i \in 1..Len(w)} \cup {initial}))
\* col[mask]: the elements where the boolean mask is set, in order
Selected(mask) == SelectSeq([k \in 1..Len(mask) |-> k], LAMBDA k : mask[k])
BoolIndex(col, mask) ==
    LET idx == Selected(mask) IN [j \in 1..Len(idx) |-> col[idx[j]]]
\* mutant: np.zeros(1, dtype=calibration_dtype), one all-zero record
empty_calibration_one ==
    << [du_id |-> 0, du_datetime |-> 0,
        trace |-> [c \in 0..(N_CHANNELS - 1) |-> [s \in 1..TRACE_LEN |-> 0]]] >>
\* np.array([], dtype=calibration_dtype)
empty_calibration == << >>
\* mutant: np.append(values, arr), the new records in front
np_append_front(arr, values) == values \o arr
\* np.append(arr, values) of two 1-d arrays
np_append(arr, values) == arr \o values

\* ------------------------------------------------------------ nest_strip
\* f[f"trace_{i}"]
trace_key(i) ==
    CASE i = 0 -> "trace_0" [] i = 1 -> "trace_1"
      [] i = 2 -> "trace_2" [] i = 3 -> "trace_3"
n_trigger(f) == Len(f["du_id"])
\* j[0]
unwrap(j) == j[1]
trace_length(f, i) ==
    [k \in 1..Len(f[trace_key(i)]) |-> Len(unwrap(f[trace_key(i)][k]))]
trace_max(f, i) ==
    [k \in 1..Len(f[trace_key(i)]) |->
        np_max(np_abs(unwrap(f[trace_key(i)][k])), 0)]
\* mutant: trace_max < 2**13
channel_good_strict(len, max) == len = TRACE_LEN /\ max < ADC_MAX
\* mutant: the amplitude test forgotten
channel_good_no_amplitude(len, max) == len = TRACE_LEN
\* (trace_length == 1024) & (trace_max <= 2**13), one element
channel_good(len, max) == len = TRACE_LEN /\ max <= ADC_MAX
\* mutant: the channels combined with | instead of &
mask_combine_or(m, c) == m \/ c
mask_combine(m, c) == m /\ c
\* mask_trigger_good after the first i rounds of the loop over the channels
RECURSIVE mask_after(_, _)
mask_after(f, i) ==
    IF i = 0
      THEN [k \in 1..n_trigger(f) |-> TRUE]
      ELSE LET m == mask_after(f, i - 1)
               l == trace_length(f, i - 1)
               x == trace_max(f, i - 1)
           IN  [k \in 1..n_trigger(f) |->
                   mask_combine(m[k], channel_good(l[k], x[k].value))]
mask_trigger_good(f) == mask_after(f, N_CHANNELS)
\* np.sum(mask_trigger_good)
n_trigger_good(mask) == Cardinality({k \in 1..Len(mask) : mask[k]})
\* mutant: the early return taken for fewer than two good triggers
no_good_trigger_lt2(n_good) == n_good < 2
\* n_trigger_good < 1
no_good_trigger(n_good) == n_good < 1
du_id(f, mask) ==
    BoolIndex([k \in 1..Len(f["du_id"]) |-> astype_int(f["du_id"][k])], mask)
\* mutant: du_seconds sliced to the first n_trigger_good events
du_time_head(f, mask) ==
    [j \in 1..Len(Selected(mask)) |-> f["du_seconds"][j]]
du_time(f, mask) == BoolIndex(f["du_seconds"], mask)
du_datetime(t) ==
    [k \in 1..Len(t) |-> EPOCH + astype_int(t[k]) * timedelta64_1s]
\* [j[0] for j in f[f"trace_{i}"][mask_trigger_good]]
trace_rows(f, mask, i) ==
    LET sel == BoolIndex(f[trace_key(i)], mask)
    IN  [k \in 1..Len(sel) |-> unwrap(sel[k])]
\* trace_arr after the loop over the channels
trace_arr(f, mask) ==
    [k \in 1..n_trigger_good(mask) |->
        [i \in 0..(N_CHANNELS - 1) |-> trace_rows(f, mask, i)[k]]]
\* np.max raises on an empty array when it has no initial value
trace_max_raises(f) ==
    \E i \in 0..(N_CHANNELS - 1) : \E k \in 1..Len(f[trace_key(i)]) :
        trace_max(f, i)[k].exc # "none"
\* the assignment to trace_arr[:, i, :] raises unless every row has 1024 samples
trace_arr_raises(f, mask) ==
    \E i \in 0..(N_CHANNELS - 1) : \E k \in 1..n_trigger_good(mask) :
        Len(trace_rows(f, mask, i)[k]) # TRACE_LEN
nest_strip(f) ==
    IF trace_max_raises(f) THEN Raise("ValueError")
    ELSE LET mask == mask_trigger_good(f)
             n_good == n_trigger_good(mask)
         IN  IF no_good_trigger(n_good) THEN Return(empty_calibration)
             ELSE IF trace_arr_raises(f, mask) THEN Raise("ValueError")
             ELSE LET ids == du_id(f, mask)
                      times == du_datetime(du_time(f, mask))
                      traces == trace_arr(f, mask)
                  IN  Return([k \in 1..n_good |->
                                 [du_id |-> ids[k],
                                  du_datetime |-> times[k],
                                  trace |-> traces[k]]])

\* ------------------------------------------------------------ raw batches
\* One channel's waveform of one event: `len` samples, the channel number
\* plus one in the first sample, `peak` in the second, zero elsewhere.
Wave(len, peak, c) ==
    [s \in 1..len |-> IF s = 2 THEN peak ELSE IF s = 1 THEN c + 1 ELSE 0]
\* An event as the file holds it.  Each trace value nests the waveform as its
\* zeroth element; `extra` is what the nesting holds after it.
RawEvent(id, seconds, waves, extra) ==
    [du_id |-> id, du_seconds |-> seconds,
     trace |-> [c \in 0..(N_CHANNELS - 1) |-> <<waves[c]>> \o extra]]
GoodA ==
    RawEvent(Rat(1080, 1), Rat(1700000000, 1),
             [c \in 0..(N_CHANNELS - 1) |-> Wave(TRACE_LEN, 100, c)], << >>)
GoodB ==
    RawEvent(Rat(1081, 1), Rat(1893369601, 2),
             [c \in 0..(N_CHANNELS - 1) |-> Wave(TRACE_LEN, ADC_MAX, c)], << >>)
GoodC ==
    RawEvent(Rat(1082, 1), Rat(59, 1),
             [c \in 0..(N_CHANNELS - 1) |-> Wave(TRACE_LEN, -ADC_MAX, c)],
             << <<ADC_MAX + 1>> >>)
BadKinds == {"over", "under", "short", "long", "empty"}
BadWave(kind, c) ==
    CASE kind = "over"  -> Wave(TRACE_LEN, ADC_MAX + 1, c)
      [] kind = "under" -> Wave(TRACE_LEN, -(ADC_MAX + 1), c)
      [] kind = "short" -> Wave(TRACE_LEN \div 2, 100, c)
      [] kind = "long"  -> Wave(TRACE_LEN + 1, 100, c)
      [] kind = "empty" -> << >>
\* An event whose channel `ch` alone fails the check.
BadEvent(ch, kind) ==
    RawEvent(Rat(1090 + ch, 1), Rat(86400, 1),
             [c \in 0..(N_CHANNELS - 1) |->
                 IF c = ch THEN BadWave(kind, c) ELSE Wave(TRACE_LEN, 100, c)],
             << >>)
\* Every channel fails once by amplitude and once by length.
BadCases ==
    {<<0, "over">>, <<0, "empty">>, <<1, "under">>, <<1, "long">>,
     <<2, "over">>, <<2, "short">>, <<3, "under">>, <<3, "short">>}
StripEvents ==
    {GoodA, GoodB, GoodC} \cup {BadEvent(bc[1], bc[2]) : bc \in BadCases}
ReaderEvents == {GoodA, GoodB, BadEvent(1, "over"), BadEvent(3, "empty")}
\* The batch uproot yields for a run of events: one column per expression.
MakeBatch(evs) ==
    [du_id |-> [k \in 1..Len(evs) |-> evs[k].du_id],
     du_seconds |-> [k \in 1..Len(evs) |-> evs[k].du_seconds],
     trace_0 |-> [k \in 1..Len(evs) |-> evs[k].trace[0]],
     trace_1 |-> [k \in 1..Len(evs) |-> evs[k].trace[1]],
     trace_2 |-> [k \in 1..Len(evs) |-> evs[k].trace[2]],
     trace_3 |-> [k \in 1..Len(evs) |-> evs[k].trace[3]]]
Batches(pool) ==
    {MakeBatch(evs) : evs \in UNION {[1..n -> pool] : n \in 0..MaxEvents}}
ReaderBatches == Batches(ReaderEvents)
StripBatches == Batches(StripEvents)
\* The records of an output array read back as a raw batch.
AsRawBatch(arr) ==
    MakeBatch([k \in 1..Len(arr) |->
        RawEvent(Rat(arr[k].du_id, 1), Rat(arr[k].du_datetime - EPOCH, 1),
                 arr[k].trace, << >>)])

\* ------------------------------------------------------------ root_reader
Pending == [exc |-> "pending", value |-> << >>]
\* What a listed file turns out to be when the iterator opens it.
FileKinds == {"ok", "missing", "corrupt"}
\* The lists root_reader is called with.
FileLists == {<< >>, <<"run1.root">>, <<"run1.root", "run2.root">>}
\* mutant: allow_missing=False
allow_missing_off == FALSE
\* ur.iterate(..., allow_missing=True)
allow_missing == TRUE
\* The calls nest_strip(batch) the loop can make, each with its outcome.
ReaderCalls == {[f |-> b, out |-> nest_strip(b)] : b \in ReaderBatches}

Init ==
    /\ trace_f = trace_f_value
    /\ fname_list \in FileLists
    /\ files \in [1..Len(fname_list) -> FileKinds]
    /\ pos = 1
    /\ nbatch = 0
    /\ batch = MakeBatch(<< >>)
    /\ stripped = Pending
    /\ trigger_arr = empty_calibration
    /\ ret = Pending
    /\ pc = "iterate"
    /\ pass = 0

AtFile(kind) ==
    /\ pc = "iterate"
    /\ pos <= Len(fname_list)
    /\ files[pos] = kind

\* One round of the for loop: the iterator yields the events of the current
\* file as batch b, nest_strip(b) ends with outcome r and np.append grows
\* trigger_arr.  A file is read in one batch.
NextBatch(b, r) ==
    /\ AtFile("ok")
    /\ nbatch' = nbatch + 1
    /\ batch' = b
    /\ stripped' = r
    /\ IF r.exc = "none"
         THEN /\ trigger_arr' = np_append(trigger_arr, r.value)
              /\ pos' = pos + 1
              /\ UNCHANGED <<pc, ret>>
         ELSE /\ pc' = "raised"
              /\ ret' = Raise(r.exc)
              /\ UNCHANGED <<trigger_arr, pos>>
    /\ UNCHANGED <<trace_f, fname_list, files, pass>>

\* The table of the current file holds no entry: the iterator yields nothing
\* for it and opens the next file.
EmptyFile ==
    /\ AtFile("ok")
    /\ pos' = pos + 1
    /\ UNCHANGED <<trace_f, pc, fname_list, files, nbatch, batch, stripped,
                   trigger_arr, ret, pass>>

\* The current file holds no teventadc table.
MissingTable ==
    /\ AtFile("missing")
    /\ IF allow_missing
         THEN /\ pos' = pos + 1
              /\ UNCHANGED <<pc, ret>>
         ELSE /\ pc' = "raised"
              /\ ret' = Raise("KeyInFileError")
              /\ UNCHANGED pos
    /\ UNCHANGED <<trace_f, fname_list, files, nbatch, batch, stripped,
                   trigger_arr, pass>>

\* The current file cannot be read: nothing catches the error.
ReadError ==
    /\ AtFile("corrupt")
    /\ pc' = "raised"
    /\ ret' = Raise("OSError")
    /\ UNCHANGED <<trace_f, fname_list, files, pos, nbatch, batch, stripped,
                   trigger_arr, pass>>

\* The iterator is exhausted: return trigger_arr.
ReturnArr ==
    /\ pc = "iterate"
    /\ pos > Len(fname_list)
    /\ pc' = "returned"
    /\ ret' = Return(trigger_arr)
    /\ UNCHANGED <<trace_f, fname_list, files, pos, nbatch, batch, stripped,
                   trigger_arr, pass>>

Next ==
    \/ \E c \in ReaderCalls : NextBatch(c.f, c.out)
    \/ EmptyFile
    \/ MissingTable
    \/ ReadError
    \/ ReturnArr

Spec == Init /\ [][Next]_vars

\* ------------------------------------------- nest_strip called on its own
InitStrip ==
    /\ trace_f = trace_f_value
    /\ fname_list = << >>
    /\ files = << >>
    /\ pos = 1
    /\ nbatch = 0
    /\ batch \in StripBatches
    /\ stripped = Pending
    /\ trigger_arr = empty_calibration
    /\ ret = Pending
    /\ pc = "strip_call"
    /\ pass = 1

StripCall ==
    /\ pc = "strip_call"
    /\ stripped' = nest_strip(batch)
    /\ pc' = "strip_done"
    /\ UNCHANGED <<trace_f, fname_list, files, pos, nbatch, batch,
                   trigger_arr, ret, pass>>

\* The caller hands the filtered records back to nest_strip.
Refeed ==
    /\ pc = "strip_done"
    /\ pass = 1
    /\ stripped.exc = "none"
    /\ batch' = AsRawBatch(stripped.value)
    /\ pass' = 2
    /\ pc' = "strip_call"
    /\ UNCHANGED <<trace_f, fname_list, files, pos, nbatch, stripped,
                   trigger_arr, ret>>

NextStrip == StripCall \/ Refeed

SpecStrip == InitStrip /\ [][NextStrip]_vars

\* ----------------------------------------------------------------- claims
\* What the claims say of a raw batch f, stated without the normalizer.
NEvents(f) == Len(f["du_id"])
Waveform(f, k, c) == f[trace_key(c)][k][1]
Samples(w) == {w[s] : s \in DOMAIN w}
WaveformGood(w) == Len(w) = 1024 /\ Samples(w) \subseteq (-8192)..8192
EventGood(f, k) == \A c \in 0..3 : WaveformGood(Waveform(f, k, c))
\* the good events of f, in the order of f
GoodEvents(f) ==
    SelectSeq([k \in 1..NEvents(f) |-> k], LAMBDA k : EventGood(f, k))
SameId(rec, f, k) == RatEq(Rat(rec.du_id, 1), f["du_id"][k])
SameTraces(rec, f, k) ==
    /\ DOMAIN rec.trace = 0..3
    /\ \A c \in 0..3 : rec.trace[c] = Waveform(f, k, c)
\* rec.du_datetime is the epoch plus the whole seconds of event k's du_seconds
SameTime(rec, f, k) ==
    LET n == rec.du_datetime - datetime64(1970, 1, 1, 0, 0, 0)
        q == f["du_seconds"][k]
    IN  n * q.den <= q.num /\ q.num < (n + 1) * q.den
Done == pc = "strip_done"
Out == stripped.value

\* C1: every event whose four waveforms have 1024 samples of magnitude at
\* most 8192 appears exactly once in the output of nest_strip, with its du_id
\* and with trace row c equal to channel c's waveform.
C1_GoodEventsKept ==
    Done =>
        LET good == GoodEvents(batch)
        IN  /\ stripped.exc = "none"
            /\ Len(Out) = Len(good)
            /\ \A r \in 1..Len(good) :
                  SameId(Out[r], batch, good[r])
                      /\ SameTraces(Out[r], batch, good[r])
\* a batch holding an event at amplitude exactly 8192 and a bad event
C1_Witness ==
    /\ Done
    /\ Len(Out) >= 1
    /\ Len(Out) < NEvents(batch)
    /\ \E k \in 1..NEvents(batch) :
          EventGood(batch, k) /\ 8192 \in Samples(Waveform(batch, k, 0))

\* C2: an event that fails the check on any one channel is absent from the
\* output of nest_strip, and every output record carries all four channels
\* of one good event.
C2_BadEventsDropped ==
    (Done /\ stripped.exc = "none") =>
        LET good == GoodEvents(batch)
            isGood == {good[r] : r \in 1..Len(good)}
        IN  /\ \A k \in (1..NEvents(batch)) \ isGood : \A r \in 1..Len(Out) :
                  ~(SameId(Out[r], batch, k) /\ SameTraces(Out[r], batch, k))
            /\ \A r \in 1..Len(Out) : \E k \in isGood :
                  SameTraces(Out[r], batch, k)
\* a good event next to one whose only failure is a sample of -8193
C2_Witness ==
    /\ Done
    /\ Len(Out) = 1
    /\ NEvents(batch) = 2
    /\ \E k \in 1..2 : \E c \in 0..3 :
          /\ -8193 \in Samples(Waveform(batch, k, c))
          /\ \A d \in (0..3) \ {c} : WaveformGood(Waveform(batch, k, d))

\* The records of out are the good events of f, in the order of f.
GoodSubsequence(out, f) ==
    LET good == GoodEvents(f)
    IN  /\ Len(out) = Len(good)
        /\ \A r \in 1..Len(good) :
              /\ SameId(out[r], f, good[r])
              /\ SameTime(out[r], f, good[r])
              /\ SameTraces(out[r], f, good[r])
\* A round of the driver's loop has just run.
Yielded == nbatch' = nbatch + 1

\* The step appends the outcome of nest_strip after the records already there.
AppendsOutput ==
    LET n == Len(trigger_arr)
    IN  /\ Len(trigger_arr') = n + Len(stripped'.value)
        /\ SubSeq(trigger_arr', 1, n) = trigger_arr
        /\ SubSeq(trigger_arr', n + 1, Len(trigger_arr')) = stripped'.value

\* C3: the output of nest_strip keeps the good events of a batch in their
\* order, and each round of root_reader's loop appends that output after the
\* records already there, which no step reorders, drops or overwrites.
C3_OrderPreserved ==
    /\ [](nbatch > 0 /\ stripped.exc = "none" => GoodSubsequence(Out, batch))
    /\ [][IF Yielded THEN AppendsOutput ELSE trigger_arr' = trigger_arr]_vars
\* two batches, the second with a bad event before a good one, both of which
\* left records that differ
C3_Witness ==
    /\ nbatch = 2
    /\ Len(trigger_arr) >= 3
    /\ NEvents(batch) = 2
    /\ ~EventGood(batch, 1)
    /\ EventGood(batch, 2)
    /\ trigger_arr[1] # trigger_arr[2]
    /\ trigger_arr[Len(trigger_arr)] # trigger_arr[1]

\* C4: every record of the driver's running array has four rows of exactly
\* 1024 samples each, none of magnitude above 8192.
C4_ArrayRecordsGood ==
    \A r \in 1..Len(trigger_arr) :
        /\ DOMAIN trigger_arr[r].trace = 0..3
        /\ \A c \in 0..3 : WaveformGood(trigger_arr[r].trace[c])
\* after two batches, one of which held an event above 8192, the array holds
\* a record at exactly 8192
C4_Witness ==
    /\ nbatch = 2
    /\ Len(trigger_arr) >= 2
    /\ \E k \in 1..NEvents(batch) : \E c \in 0..3 :
          8193 \in Samples(Waveform(batch, k, c))
    /\ \E r \in 1..Len(trigger_arr) :
          8192 \in Samples(trigger_arr[r].trace[0])

\* C5: for a batch in which no event is good (a batch of no events, or of
\* events with an empty waveform, among others) nest_strip raises nothing and
\* returns an array of length 0, and the round leaves the driver's array as
\* it was.
C5_NoGoodEventBatch ==
    [][(Yielded /\ Len(GoodEvents(batch')) = 0) =>
          /\ stripped'.exc = "none"
          /\ Len(stripped'.value) = 0
          /\ pc' = "iterate"
          /\ trigger_arr' = trigger_arr]_vars
\* a second batch whose only event has an empty waveform, after a batch that
\* left records
C5_Witness ==
    /\ nbatch = 2
    /\ pc = "iterate"
    /\ NEvents(batch) = 1
    /\ \E c \in 0..3 : Len(Waveform(batch, 1, c)) = 0
    /\ Len(Out) = 0
    /\ Len(trigger_arr) >= 1

AllGood(f) == \A k \in 1..NEvents(f) : EventGood(f, k)

\* C6: nest_strip returns a batch whose events are all good unchanged: as many
\* records, in the same order, each with the du_id, the timestamp and the four
\* waveforms of its event; so a second run over its own output removes nothing.
C6_FilterIdempotent ==
    (Done /\ AllGood(batch)) =>
        /\ stripped.exc = "none"
        /\ Len(Out) = NEvents(batch)
        /\ \A k \in 1..NEvents(batch) :
              /\ SameId(Out[k], batch, k)
              /\ SameTime(Out[k], batch, k)
              /\ SameTraces(Out[k], batch, k)
\* the second run, over the records the first run kept
C6_Witness ==
    /\ Done
    /\ pass = 2
    /\ NEvents(batch) >= 1
    /\ Len(Out) = NEvents(batch)

\* C7: the du_datetime of an output record is the epoch plus the whole
\* seconds of the du_seconds of the event the record comes from;
\* du_seconds = 1700000000 gives 2023-11-14T22:13:20.
C7_TimestampOfSameEvent ==
    (Done /\ stripped.exc = "none") =>
        LET good == GoodEvents(batch)
        IN  /\ Len(Out) = Len(good)
            /\ \A r \in 1..Len(good) :
                  /\ SameTime(Out[r], batch, good[r])
                  /\ batch["du_seconds"][good[r]] = Rat(1700000000, 1)
                        => Out[r].du_datetime
                               = datetime64(2023, 11, 14, 22, 13, 20)
\* a dropped event with another du_seconds ahead of the event of 1700000000
C7_Witness ==
    /\ Done
    /\ NEvents(batch) = 2
    /\ ~EventGood(batch, 1)
    /\ batch["du_seconds"][1] # batch["du_seconds"][2]
    /\ batch["du_seconds"][2] = Rat(1700000000, 1)
    /\ Len(Out) = 1
    /\ Out[1].du_datetime = datetime64(2023, 11, 14, 22, 13, 20)

\* The iterator stands at a file of the given kind.
Facing(kind) ==
    pc = "iterate" /\ pos <= Len(fname_list) /\ files[pos] = kind

\* What a step does when the iterator stands at a file it cannot use, and
\* that a call that raised takes no further step.
FailureStep ==
    /\ Facing("missing") =>
          /\ pc' = "iterate"
          /\ pos' = pos + 1
          /\ ret' = ret
          /\ trigger_arr' = trigger_arr
    /\ Facing("corrupt") => pc' = "raised"
    /\ pc # "raised"

\* C8: a file without the event table is passed over: the loop goes on to the
\* next file with the array as it was.  Any other read failure ends the call
\* with the error raised: nothing is returned and no step follows.
C8_FailureSemantics ==
    /\ [](pc = "raised" =>
             ret.exc \notin {"none", "pending"} /\ ret.value = << >>)
    /\ [][FailureStep]_vars
\* the first file had no table, and the call returned the records of the second
C8_Witness ==
    /\ Len(fname_list) = 2
    /\ files[1] = "missing"
    /\ files[2] = "ok"
    /\ pc = "returned"
    /\ Len(trigger_arr) >= 1
    /\ ret = Return(trigger_arr)

AxisValue(k) == Rat(k * 1000, 1024 * 2)
ClaimedAxis == [k \in 1..512 |-> AxisValue(k - 1)]
ClaimedAxisIncreasing ==
    \A k \in 1..511 : RatLt(ClaimedAxis[k], ClaimedAxis[k + 1])

\* C10: trace_f has 512 values, value k being k/(1024*2)*1000: the first is 0,
\* the last 511/(1024*2)*1000, and they increase strictly; no step changes it.
C10_FrequencyAxis ==
    /\ Len(trace_f) = 512
    /\ RatEq(trace_f[1], Rat(0, 1))
    /\ RatEq(trace_f[512], AxisValue(511))
    /\ trace_f = ClaimedAxis
    /\ ClaimedAxisIncreasing
\* the axis after the driver has run its loop twice and returned
C10_Witness ==
    /\ pc = "returned"
    /\ nbatch = 2
    /\ Len(trace_f) = 512
    /\ RatLt(trace_f[511], trace_f[512])

====
